---- MODULE Spec2Model ----
(***************************************************************************)
(* Model of geomstats/geometry/riemannian_metric.py: the loss/grad         *)
(* utilities, RiemannianMetric and RiemannianCometric.                     *)
(*                                                                         *)
(* One metric object is constructed (Init) and then called, one operation  *)
(* at a time.  Every operation is a pure function of the object and its    *)
(* arguments, so an action evaluates the whole method and records the      *)
(* call and what it returned or raised.                                    *)
(*                                                                         *)
(* Floating point numbers are modelled by exact rationals <<num, den>>.    *)
(* An n-dimensional array is the record [ndim, data].                      *)
(*                                                                         *)
(* Model of geomstats/test/geometry/base.py: the checks of                 *)
(* ManifoldTestCase and VectorSpaceTestCase, run one at a time and in any  *)
(* order on the fixture self.space (TestSpec).  The arrays of the checks   *)
(* are records [shape, data] with the entries in row-major order.          *)
(***************************************************************************)
EXTENDS Integers, Sequences, FiniteSets, TLC

VARIABLES metric, pc, call, ret, evals, space, random
vars == <<metric, pc, call, ret, evals, space, random>>

(***************************************************************************)
(* Bounds of the model.                                                    *)
(***************************************************************************)
MaxCoord == 2    \* point coordinates range over 0..MaxCoord
MaxN == 3        \* longest sequence of points handed to an operation
MaxSteps == 2    \* n_steps ranges over 0..MaxSteps and the default

(***************************************************************************)
(* Module constants of riemannian_metric.py.                               *)
(***************************************************************************)
N_STEPS == 10

(***************************************************************************)
(* Exact rational arithmetic (the model of float arithmetic).              *)
(***************************************************************************)
Abs(n) == IF n < 0 THEN -n ELSE n

RECURSIVE GCD(_, _)
GCD(a, b) == IF b = 0 THEN a ELSE GCD(b, a % b)

Rat(n, d) ==
    LET g == GCD(Abs(n), Abs(d))
        s == IF d < 0 THEN -1 ELSE 1
    IN  <<s * (n \div g), s * (d \div g)>>

R(k) == <<k, 1>>
RAdd(x, y) == Rat(x[1] * y[2] + y[1] * x[2], x[2] * y[2])
RNeg(x) == <<-x[1], x[2]>>
RSub(x, y) == RAdd(x, RNeg(y))
RMul(x, y) == Rat(x[1] * y[1], x[2] * y[2])
RDiv(x, y) == Rat(x[1] * y[2], x[2] * y[1])
RLess(x, y) == x[1] * y[2] < y[1] * x[2]
RMax(x, y) == IF RLess(x, y) THEN y ELSE x

IsSquareNat(n) == \E r \in 0..n : r * r = n
IsSquare(x) == x[1] >= 0 /\ IsSquareNat(x[1]) /\ IsSquareNat(x[2])
NatRoot(n) == CHOOSE r \in 0..n : r * r = n

\* Sum of the sequence of rationals f.
RECURSIVE RSumTo(_, _)
RSumTo(f, n) == IF n = 0 THEN R(0) ELSE RAdd(RSumTo(f, n - 1), f[n])
RSum(f) == RSumTo(f, Len(f))

(***************************************************************************)
(* Arrays and the backend (gs) functions the module calls.                 *)
(***************************************************************************)
Arr(nd, d) == [ndim |-> nd, data |-> d]
\* A 0-d integer array (an index).
IntArr(k) == [ndim |-> 0, dtype |-> "int64", data |-> k]

Value(v) == [kind |-> "value", val |-> v]
Raise(e, by) == [kind |-> "raise", exc |-> e, origin |-> by]

\* The element of a set of one element: in Only({e(v) : v \in {d}}) the
\* local variable v holds the value of d.
Only(S) == CHOOSE r \in S : TRUE

\* gs.to_ndarray(x, to_ndim): adds a leading axis when one is missing.
to_ndarray(x, to_ndim) ==
    IF x.ndim = to_ndim - 1 THEN Arr(to_ndim, <<x.data>>) ELSE x

\* gs.to_ndarray(x, to_ndim=2, axis=1) of a 1-D array: shape [n] -> [n, 1].
to_ndarray_axis1(x) ==
    IF x.ndim = 1 THEN Arr(2, [n \in 1..Len(x.data) |-> <<x.data[n]>>]) ELSE x

\* numpy broadcasting of two leading batch axes of lengths na and nb.
BatchLen(na, nb) == IF na = 1 THEN nb ELSE na
Broadcastable(na, nb) == na = nb \/ na = 1 \/ nb = 1
At(batch, n) == IF Len(batch) = 1 THEN batch[1] ELSE batch[n]

\* gs.einsum('...j,...jk->...k', a, mat) for a of shape [m, na, dim]: the
\* batch axes [m, na] of a are broadcast with the batch axis [nm] of mat.
einsum_j_jk_k_3(a, mat) ==
    IF \E x \in 1..Len(a.data) :
           \/ ~Broadcastable(Len(a.data[x]), Len(mat.data))
           \/ \E y \in 1..Len(a.data[x]) :
                  Len(a.data[x][y]) # Len(mat.data[1])
    THEN Raise("ValueError", "einsum")
    ELSE Value(Arr(3,
        [x \in 1..Len(a.data) |->
            [y \in 1..BatchLen(Len(a.data[x]), Len(mat.data)) |->
                LET av == At(a.data[x], y)
                    m == At(mat.data, y)
                IN  [k \in 1..Len(av) |->
                        RSum([j \in 1..Len(av) |-> RMul(av[j], m[j][k])])]]]))

\* gs.einsum('...j,...jk->...k', a, mat): a of shape [na, dim], mat [nm, dim, dim].
einsum_j_jk_k(a, mat) ==
    IF a.ndim = 3 THEN einsum_j_jk_k_3(a, mat)
    ELSE IF ~Broadcastable(Len(a.data), Len(mat.data))
    THEN Raise("ValueError", "einsum")
    ELSE Value(Arr(2,
        [n \in 1..BatchLen(Len(a.data), Len(mat.data)) |->
            LET av == At(a.data, n)
                m == At(mat.data, n)
            IN  [k \in 1..Len(av) |->
                    RSum([j \in 1..Len(av) |-> RMul(av[j], m[j][k])])]]))

\* gs.einsum('...k,...k->...', aux, b) for aux and b of one shape
\* [m, n, dim].
einsum_k_k_3(aux, b) ==
    Value(Arr(2,
        [x \in 1..Len(aux.data) |-> [y \in 1..Len(aux.data[x]) |->
            RSum([k \in 1..Len(aux.data[x][y]) |->
                RMul(aux.data[x][y][k], b.data[x][y][k])])]]))

\* gs.einsum('...k,...k->...', aux, b): aux of shape [na, dim], b [nb, dim].
einsum_k_k(aux, b) ==
    IF aux.ndim = 3 /\ b.ndim = 3 THEN einsum_k_k_3(aux, b)
    ELSE IF ~Broadcastable(Len(aux.data), Len(b.data))
    THEN Raise("ValueError", "einsum")
    ELSE Value(Arr(1,
        [n \in 1..BatchLen(Len(aux.data), Len(b.data)) |->
            LET x == At(aux.data, n)
                y == At(b.data, n)
            IN  RSum([k \in 1..Len(x) |-> RMul(x[k], y[k])])]))

\* gs.linalg.inv of a 1x1 or 2x2 matrix (data only).
Det(m) ==
    IF Len(m) = 1 THEN m[1][1]
    ELSE RSub(RMul(m[1][1], m[2][2]), RMul(m[1][2], m[2][1]))

inv(m) ==
    Only({IF det = R(0) THEN Raise("LinAlgError", "inv")
          ELSE IF Len(m) = 1 THEN Value(<<<<RDiv(R(1), m[1][1])>>>>)
          ELSE Value(<< <<RDiv(m[2][2], det), RDiv(RNeg(m[1][2]), det)>>,
                        <<RDiv(RNeg(m[2][1]), det), RDiv(m[1][1], det)>> >>) :
          det \in {Det(m)}})

\* gs.sqrt of a non-negative rational whose numerator and denominator are
\* perfect squares (the actions only take square roots of such numbers).
sqrt(x) == <<NatRoot(x[1]), NatRoot(x[2])>>

(***************************************************************************)
(* The metric object.  A concrete metric is a subclass that overrides the  *)
(* abstract primitive (metric_matrix of RiemannianMetric, cometric_matrix  *)
(* of RiemannianCometric) and inherits log from Connection.  The override  *)
(* is the matrix field P0 + sum_c P1[..][..][c] * x[c], affine in the base *)
(* point x, so that its Jacobian is the constant tensor P1.                *)
(***************************************************************************)
Z1 == << << <<R(0)>> >> >>
Z2 == [a \in 1..2 |-> [b \in 1..2 |-> [c \in 1..2 |-> R(0)]]]

Prim(d, p0, p1) == [dim |-> d, P0 |-> p0, P1 |-> p1]

Primitives ==
    { Prim(1, << <<R(1)>> >>, Z1),
      Prim(1, << <<R(4)>> >>, Z1),
      Prim(1, << <<R(1)>> >>, << << <<R(3)>> >> >>),
      Prim(2, << <<R(1), R(0)>>, <<R(0), R(1)>> >>, Z2),
      Prim(2, << <<R(2), R(1)>>, <<R(1), R(2)>> >>, Z2),
      \* g11 = 1 + x2
      Prim(2, << <<R(1), R(0)>>, <<R(0), R(1)>> >>,
           [Z2 EXCEPT ![1][1][2] = R(1)]),
      \* g12 = g21 = 1 + x1 (singular at x1 = 1, indefinite at x1 = 2)
      Prim(2, << <<R(2), R(1)>>, <<R(1), R(2)>> >>,
           [Z2 EXCEPT ![1][2][1] = R(1), ![2][1][1] = R(1)]) }

Connections == {"flat", "skew", "table"}

\* RiemannianMetric.__init__ / RiemannianCometric.__init__: the attributes
\* dim and default_point_type are set by Connection.__init__, signature by
\* the class itself.  The remaining fields describe the subclass.
New(class, prim, cn, sig, isConcrete) ==
    [cls |-> class, dim |-> prim.dim, signature |-> sig,
     default_point_type |-> "vector",
     concrete |-> isConcrete, P0 |-> prim.P0, P1 |-> prim.P1, conn |-> cn]

\* signature=None is the empty tuple.
None == <<>>

Constant(p) == p.P1 \in {Z1, Z2}

\* Every primitive with the flat connection, the one-dimensional ones with
\* every connection; two signatures; both classes, concrete and abstract.
MetricObjects ==
    {New("RiemannianMetric", p, "flat", None, TRUE) : p \in Primitives}
    \cup {New("RiemannianMetric", p, cn, None, TRUE) :
        p \in {q \in Primitives : q.dim = 1}, cn \in Connections}
    \cup {New("RiemannianMetric", p, "skew", <<p.dim, 0>>, TRUE) :
        p \in {q \in Primitives : q.dim = 2 /\ ~Constant(q)}}
    \cup {New("RiemannianCometric", p, "flat", None, TRUE) : p \in Primitives}
    \cup {New(c, p, "flat", None, FALSE) :
        c \in {"RiemannianMetric", "RiemannianCometric"},
        p \in {q \in Primitives : Constant(q) /\ q.P0[1][1] = R(1)}}

\* The value at the point x (a sequence of coordinates) of the overriding
\* matrix field.
MatrixAt(self, x) ==
    [a \in 1..self.dim |-> [b \in 1..self.dim |->
        RAdd(self.P0[a][b],
             RSum([c \in 1..self.dim |-> RMul(self.P1[a][b][c], x[c])]))]]

\* The override of the primitive in a concrete subclass: shape [dim, dim]
\* for one base point, [n, dim, dim] for a batch of n.
Override_matrix(self, base_point) ==
    IF base_point.ndim = 1
    THEN Arr(2, MatrixAt(self, base_point.data))
    ELSE Arr(3, [n \in 1..Len(base_point.data) |->
                    MatrixAt(self, base_point.data[n])])

\* gs.linalg.inv of an array of shape [dim, dim] or [n, dim, dim].
linalg_inv(mat) ==
    IF mat.ndim = 2
    THEN Only({IF inverse.kind = "raise" THEN inverse
               ELSE Value(Arr(2, inverse.val)) :
               inverse \in {inv(mat.data)}})
    ELSE Only({IF \E n \in 1..Len(mat.data) : inverses[n].kind = "raise"
               THEN Raise("LinAlgError", "inv")
               ELSE Value(Arr(3, [n \in 1..Len(mat.data) |->
                                    inverses[n].val])) :
               inverses \in {[n \in 1..Len(mat.data) |-> inv(mat.data[n])]}})

\* A primitive that falls back to a matrix instead of raising.
RiemannianMetric_metric_matrix_fallback(self, base_point) ==
    Value(Override_matrix(self, base_point))

\* RiemannianMetric.metric_matrix: the abstract primitive.
RiemannianMetric_metric_matrix(self, base_point) ==
    Raise("NotImplementedError", "metric_matrix")

\* RiemannianCometric.cometric_matrix: the abstract primitive, or its
\* override in a concrete subclass.
RiemannianCometric_cometric_matrix(self, base_point) ==
    Raise("NotImplementedError", "cometric_matrix")

cometric_matrix(self, base_point) ==
    IF self.concrete THEN Value(Override_matrix(self, base_point))
    ELSE RiemannianCometric_cometric_matrix(self, base_point)

RiemannianCometric_metric_matrix(self, base_point) ==
    Only({IF cometric_mat.kind = "raise" THEN cometric_mat
          ELSE linalg_inv(cometric_mat.val) :
          cometric_mat \in {cometric_matrix(self, base_point)}})

\* self.metric_matrix(base_point): method resolution on the class of self.
metric_matrix(self, base_point) ==
    IF self.cls = "RiemannianCometric"
    THEN RiemannianCometric_metric_matrix(self, base_point)
    ELSE IF self.concrete THEN Value(Override_matrix(self, base_point))
    ELSE RiemannianMetric_metric_matrix(self, base_point)

inner_product_inverse_matrix(self, base_point) ==
    Only({IF metric_mat.kind = "raise" THEN metric_mat
          ELSE linalg_inv(metric_mat.val) :
          metric_mat \in {metric_matrix(self, base_point)}})

\* geomstats.vectorization.decorator(['else', 'vector', 'vector', 'vector']):
\* every 'vector' argument gets its batch axis before the body runs.
vectorize(x) == to_ndarray(x, 2)

\* inner_product contracting tangent_vec_a with tangent_vec_b directly.
inner_product_flat(self, tangent_vec_a, tangent_vec_b, base_point) ==
    Only({IF inner_prod_mat.kind = "raise" THEN inner_prod_mat
          ELSE Only({
              IF inner_prod.kind = "raise" THEN inner_prod
              ELSE Value(to_ndarray_axis1(to_ndarray(inner_prod.val, 1))) :
              inner_prod \in {einsum_k_k(vectorize(tangent_vec_a),
                                         vectorize(tangent_vec_b))}}) :
          inner_prod_mat \in {metric_matrix(self, vectorize(base_point))}})

inner_product(self, tangent_vec_a, tangent_vec_b, base_point) ==
    Only({IF inner_prod_mat.kind = "raise" THEN inner_prod_mat
          ELSE Only({
              IF aux.kind = "raise" THEN aux
              ELSE Only({
                  IF inner_prod.kind = "raise" THEN inner_prod
                  ELSE Value(to_ndarray_axis1(
                                 to_ndarray(inner_prod.val, 1))) :
                  inner_prod \in {einsum_k_k(aux.val,
                                             vectorize(tangent_vec_b))}}) :
              aux \in {einsum_j_jk_k(vectorize(tangent_vec_a),
                                     to_ndarray(inner_prod_mat.val, 3))}}) :
          inner_prod_mat \in {metric_matrix(self, vectorize(base_point))}})

squared_norm(self, vector, base_point) ==
    inner_product(self, vector, vector, base_point)

\* gs.sqrt applied to every entry of an array of shape [n, 1].
gs_sqrt(x) == Arr(2, [n \in 1..Len(x.data) |-> <<sqrt(x.data[n][1])>>])

norm(self, vector, base_point) ==
    Only({IF sq_norm.kind = "raise" THEN sq_norm
          ELSE Value(gs_sqrt(sq_norm.val)) :
          sq_norm \in {squared_norm(self, vector, base_point)}})

(***************************************************************************)
(* Connection.log(point, base_point), inherited: the tangent vector at     *)
(* base_point towards point, one per element of a batch.                   *)
(***************************************************************************)
Sign(n) == IF n < 0 THEN -1 ELSE IF n > 0 THEN 1 ELSE 0

\* A connection given by a table of distances on the coordinates 0..2:
\* d(0,1) = 1, d(0,2) = 5, d(1,2) = 3.
TableDist(lo, hi) ==
    IF lo = 0 /\ hi = 1 THEN 1
    ELSE IF lo = 0 /\ hi = 2 THEN 5
    ELSE IF lo = 1 /\ hi = 2 THEN 3
    ELSE hi - lo

LogCoord(cn, p, b, b1) ==
    IF cn = "flat" THEN RSub(p, b)
    ELSE IF cn = "skew" THEN RMul(RSub(p, b), RAdd(R(1), b1))
    ELSE IF RLess(b, p) THEN R(TableDist(b[1], p[1]))
    ELSE R(-TableDist(p[1], b[1]))

LogVec(cn, p, b) == [i \in 1..Len(p) |-> LogCoord(cn, p[i], b[i], b[1])]

log(self, point, base_point) ==
    IF point.ndim = 1 /\ base_point.ndim = 1
    THEN Arr(1, LogVec(self.conn, point.data, base_point.data))
    ELSE LET pt == to_ndarray(point, 2).data
             bp == to_ndarray(base_point, 2).data
         IN  Arr(2, [n \in 1..BatchLen(Len(pt), Len(bp)) |->
                        LogVec(self.conn, At(pt, n), At(bp, n))])

\* squared_dist taking the log at point_b towards point_a.
squared_dist_swapped(self, point_a, point_b) ==
    Only({inner_product(self, log_, log_, point_a) :
          log_ \in {log(self, point_a, point_b)}})

squared_dist(self, point_a, point_b) ==
    Only({squared_norm(self, log_, point_a) :
          log_ \in {log(self, point_b, point_a)}})

dist(self, point_a, point_b) ==
    Only({IF sq_dist.kind = "raise" THEN sq_dist
          ELSE Value(gs_sqrt(sq_dist.val)) :
          sq_dist \in {squared_dist(self, point_a, point_b)}})

(***************************************************************************)
(* Christoffel symbols.                                                    *)
(***************************************************************************)
\* autograd.jacobian(self.metric_matrix)(base_point) for one base point:
\* D[a][b][c] = d metric[a][b] / d x[c].  The Jacobian of the affine
\* override is its slope P1; the Jacobian of the inverse G of the cometric
\* K (the metric matrix of a RiemannianCometric) is -G (dK/dx[c]) G.
jacobian_metric_matrix(self, base_point) ==
    LET d == self.dim
    IN  Only({
        IF metric_mat.kind = "raise" THEN metric_mat
        ELSE IF self.cls = "RiemannianMetric" THEN Value(Arr(3, self.P1))
        ELSE LET G == metric_mat.val.data
             IN  Value(Arr(3, [a \in 1..d |-> [b \in 1..d |-> [c \in 1..d |->
                    RNeg(RSum([r \in 1..d |-> RSum([t \in 1..d |->
                        RMul(RMul(G[a][r], self.P1[r][t][c]), G[t][b])])]))]]])) :
        metric_mat \in {metric_matrix(self, base_point)}})

inner_product_derivative_matrix(self, base_point) ==
    jacobian_metric_matrix(self, base_point)

\* gs.einsum('...im,...mkl->...ikl', A, B) for one base point.
einsum_im_mkl_ikl(A, B) ==
    LET d == Len(A)
    IN  [i \in 1..d |-> [k \in 1..d |-> [l \in 1..d |->
            RSum([m \in 1..d |-> RMul(A[i][m], B[m][k][l])])]]]

\* gs.einsum('...im,...mlk->...ilk', A, B): the axes of the result are, in
\* this order, i, l and k.
einsum_im_mlk_ilk(A, B) ==
    LET d == Len(A)
    IN  [i \in 1..d |-> [l \in 1..d |-> [k \in 1..d |->
            RSum([m \in 1..d |-> RMul(A[i][m], B[m][l][k])])]]]

\* gs.einsum('...im,...klm->...ikl', A, B).
einsum_im_klm_ikl(A, B) ==
    LET d == Len(A)
    IN  [i \in 1..d |-> [k \in 1..d |-> [l \in 1..d |->
            RSum([m \in 1..d |-> RMul(A[i][m], B[k][l][m])])]]]

\* Entry by entry: - T, T + U, 0.5 * T for arrays of shape [dim, dim, dim].
Neg3(T) == [x \in 1..Len(T) |-> [y \in 1..Len(T) |-> [z \in 1..Len(T) |->
                RNeg(T[x][y][z])]]]
Add3(T, U) == [x \in 1..Len(T) |-> [y \in 1..Len(T) |-> [z \in 1..Len(T) |->
                RAdd(T[x][y][z], U[x][y][z])]]]
Half3(T) == [x \in 1..Len(T) |-> [y \in 1..Len(T) |-> [z \in 1..Len(T) |->
                RMul(Rat(1, 2), T[x][y][z])]]]

christoffels(self, base_point) ==
    Only({
        IF cometric_mat_at_point.kind = "raise" THEN cometric_mat_at_point
        ELSE Only({
            IF metric_derivative_at_point.kind = "raise"
            THEN metric_derivative_at_point
            ELSE
            LET term_1 == einsum_im_mkl_ikl(cometric_mat_at_point.val.data,
                                            metric_derivative_at_point.val.data)
                term_2 == einsum_im_mlk_ilk(cometric_mat_at_point.val.data,
                                            metric_derivative_at_point.val.data)
                term_3 == Neg3(einsum_im_klm_ikl(
                                   cometric_mat_at_point.val.data,
                                   metric_derivative_at_point.val.data))
            IN  Value(Arr(3, Half3(Add3(Add3(term_1, term_2), term_3)))) :
            metric_derivative_at_point \in
                {inner_product_derivative_matrix(self, base_point)}}) :
        cometric_mat_at_point \in
            {inner_product_inverse_matrix(self, base_point)}})

(***************************************************************************)
(* loss and grad.                                                          *)
(***************************************************************************)
loss(y_pred, y_true, self) == squared_dist(self, y_pred, y_true)

\* gs.transpose(mat, axes=(1, 0)) of one matrix.
Transposed(m) == [i \in 1..Len(m) |-> [j \in 1..Len(m) |-> m[j][i]]]

\* gs.transpose(inner_prod_mat, axes): (0, 2, 1) or (1, 0).
transpose(mat, is_vectorized) ==
    IF is_vectorized
    THEN Arr(3, [n \in 1..Len(mat.data) |-> Transposed(mat.data[n])])
    ELSE Arr(2, Transposed(mat.data))

\* One element of gs.einsum('...i,...ij->...i', v, m).
Einsum_i_ij_i(v, m) ==
    [i \in 1..Len(v) |-> RSum([j \in 1..Len(v) |-> RMul(v[i], m[i][j])])]

\* gs.einsum('...i,...ij->...i', v, mat): v of shape [dim] or [n, dim], mat
\* of shape [dim, dim] or [n, dim, dim].
einsum_i_ij_i(v, mat) ==
    IF v.ndim = 1 /\ mat.ndim = 2 THEN Value(Arr(1, Einsum_i_ij_i(v.data, mat.data)))
    ELSE LET vs == to_ndarray(v, 2).data
             ms == to_ndarray(mat, 3).data
         IN  IF ~Broadcastable(Len(vs), Len(ms))
             THEN Raise("ValueError", "einsum")
             ELSE Value(Arr(2, [n \in 1..BatchLen(Len(vs), Len(ms)) |->
                                Einsum_i_ij_i(At(vs, n), At(ms, n))]))

\* k * x for every entry of an array of shape [dim] or [n, dim].
Scaled(k, x) ==
    IF x.ndim = 1 THEN Arr(1, [i \in 1..Len(x.data) |-> RMul(k, x.data[i])])
    ELSE Arr(2, [n \in 1..Len(x.data) |->
                    [i \in 1..Len(x.data[n]) |-> RMul(k, x.data[n][i])]])

grad(y_pred, y_true, self) ==
    LET tangent_vec == log(self, y_true, y_pred)
        grad_vec == Scaled(R(-2), tangent_vec)
    IN  Only({
        IF inner_prod_mat.kind = "raise" THEN inner_prod_mat
        ELSE LET is_vectorized == inner_prod_mat.val.ndim = 3
             IN  einsum_i_ij_i(grad_vec,
                               transpose(inner_prod_mat.val, is_vectorized)) :
        inner_prod_mat \in {metric_matrix(self, y_pred)}})

(***************************************************************************)
(* dist_pairwise, diameter, closest_neighbor_index.                        *)
(***************************************************************************)
\* s[i:] for a 0-based i.
SliceFrom(s, i) == SubSeq(s, i + 1, Len(s))

\* The slice of the inner loop starting one element late.
point_after(point, i) == SliceFrom(point.data, i + 1)

\* point[i:], the points the inner loop of dist_pairwise runs over.
point_from(point, i) == SliceFrom(point.data, i)

\* The state of a loop: the exception that ended it if any, the list or
\* running value it builds, and the evaluations of dist it has made.
Loop(exception, value, ev) == [raised |-> exception, acc |-> value, evals |-> ev]
NoException == [kind |-> "none"]

\* F applied to the value of e, with e evaluated once and completely.
With(e, F(_)) == CHOOSE r \in {F(v) : v \in {w \in {e} : w = w}} : TRUE

\* for y in point[i:]: pairwise_dist.append(self.dist(x, y)), from the
\* k-th element (1-based) of ys = point[i:] on.
RECURSIVE dist_pairwise_row(_, _, _, _, _, _)
dist_pairwise_row(self, x, ys, i, k, st) ==
    IF k > Len(ys) \/ st.raised.kind = "raise" THEN st
    ELSE LET ev == Append(st.evals, <<i, i + k - 1>>)
             Appended(d) ==
                IF d.kind = "raise" THEN Loop(d, st.acc, ev)
                ELSE Loop(NoException, Append(st.acc, d.val), ev)
         IN  Only({dist_pairwise_row(self, x, ys, i, k + 1, st1) :
                   st1 \in {Appended(d) :
                       d \in {dist(self, Arr(1, x), Arr(1, ys[k]))}}})

\* for i, x in enumerate(point): ..., from the 0-based index i on.
RECURSIVE dist_pairwise_rows(_, _, _, _)
dist_pairwise_rows(self, point, i, st) ==
    IF i >= Len(point.data) \/ st.raised.kind = "raise" THEN st
    ELSE Only({dist_pairwise_rows(self, point, i + 1, st1) :
               st1 \in {dist_pairwise_row(self, point.data[i + 1],
                                          point_from(point, i), i, 1, st)}})

\* SymmetricMatrices.from_vector(gs.array(pairwise_dist)): the symmetric
\* n x n matrix whose upper triangle, row by row, is the flat sequence of
\* the n(n+1)/2 numbers held by the list.
TriangleIndex(n, i, j) == (i - 1) * n - ((i - 1) * (i - 2)) \div 2 + (j - i + 1)

from_vector(list) ==
    LET m == Len(list)
        vec == [k \in 1..m |-> list[k].data[1][1]]
    IN  IF ~\E n \in 0..m : n * (n + 1) = 2 * m
        THEN Raise("ValueError", "from_vector")
        ELSE LET n == CHOOSE n \in 0..m : n * (n + 1) = 2 * m
             IN  Value(Arr(2, [i \in 1..n |-> [j \in 1..n |->
                    IF i <= j THEN vec[TriangleIndex(n, i, j)]
                    ELSE vec[TriangleIndex(n, j, i)]]]))

dist_pairwise_run(self, point) ==
    dist_pairwise_rows(self, point, 0, Loop(NoException, <<>>, <<>>))

\* What dist_pairwise returns after the loops st.
dist_pairwise_return(st) ==
    IF st.raised.kind = "raise" THEN st.raised ELSE from_vector(st.acc)

dist_pairwise(self, point) ==
    Only({dist_pairwise_return(st) : st \in {dist_pairwise_run(self, point)}})

\* gs.amax of an array of shape [n, 1], n >= 1.
amax(x) ==
    LET vals == {x.data[n][1] : n \in 1..Len(x.data)}
    IN  CHOOSE v \in vals : \A w \in vals : ~RLess(v, w)

\* gs.maximum of two numbers.
maximum(x, y) == RMax(x, y)

\* for i in range(n_points - 1): ..., from the 0-based index i on; stop is
\* the end of the range.
RECURSIVE diameter_loop(_, _, _, _, _)
diameter_loop(self, points, i, stop, st) ==
    IF i >= stop \/ st.raised.kind = "raise" THEN st
    ELSE
    LET ev == Append(st.evals, i)
        Updated(dist_to_neighbors) ==
            IF dist_to_neighbors.kind = "raise"
            THEN Loop(dist_to_neighbors, st.acc, ev)
            ELSE Loop(NoException,
                      maximum(st.acc, amax(dist_to_neighbors.val)), ev)
    IN  Only({diameter_loop(self, points, i + 1, stop, st1) :
              st1 \in {Updated(dist_to_neighbors) :
                  dist_to_neighbors \in
                      {dist(self, Arr(1, points.data[i + 1]),
                            Arr(2, SliceFrom(points.data, i + 1)))}}})

\* diameter with a loop that stops one iteration early.
diameter_run_short(self, points) ==
    LET n_points == Len(points.data)
    IN  diameter_loop(self, points, 0, n_points - 2,
                      Loop(NoException, R(0), <<>>))

diameter_run(self, points) ==
    LET n_points == Len(points.data)
    IN  diameter_loop(self, points, 0, n_points - 1,
                      Loop(NoException, R(0), <<>>))

\* What diameter returns after the loop st.
diameter_return(st) ==
    IF st.raised.kind = "raise" THEN st.raised ELSE Value(Arr(0, st.acc))

diameter(self, points) ==
    Only({diameter_return(st) : st \in {diameter_run(self, points)}})

\* The last index of the least entry.
argmin_last(x) ==
    IntArr(CHOOSE k \in 0..(Len(x.data) - 1) :
        /\ \A j \in 0..(Len(x.data) - 1) :
            ~RLess(x.data[j + 1][1], x.data[k + 1][1])
        /\ \A j \in (k + 1)..(Len(x.data) - 1) :
            RLess(x.data[k + 1][1], x.data[j + 1][1]))

\* gs.argmin of an array of shape [n, 1], n >= 1: the first index (0-based)
\* of the least entry.
argmin(x) ==
    IntArr(CHOOSE k \in 0..(Len(x.data) - 1) :
        /\ \A j \in 0..(Len(x.data) - 1) :
            ~RLess(x.data[j + 1][1], x.data[k + 1][1])
        /\ \A j \in 0..(k - 1) :
            RLess(x.data[k + 1][1], x.data[j + 1][1]))

closest_neighbor_index(self, point, neighbors) ==
    Only({IF dist_.kind = "raise" THEN dist_
          ELSE Value(argmin(dist_.val)) :
          dist_ \in {dist(self, point, neighbors)}})

\* 1. / gs.sqrt(norms) for an array of shape [n, k].
reciprocal_sqrt(norms) ==
    Arr(2, [n \in 1..Len(norms.data) |-> [k \in 1..Len(norms.data[n]) |->
                RDiv(R(1), sqrt(norms.data[n][k]))]])

\* gs.einsum('i, ikl->ikl', scale, basis): the operands have exactly the
\* axes the subscripts name, and the axes named i have one length.
einsum_i_ikl_ikl(scale, basis) ==
    IF scale.ndim # 1 \/ basis.ndim # 3 THEN Raise("ValueError", "einsum")
    ELSE IF Len(scale.data) # Len(basis.data)
    THEN Raise("ValueError", "einsum")
    ELSE Value(Arr(3, [i \in 1..Len(basis.data) |->
            [k \in 1..Len(basis.data[i]) |->
                [l \in 1..Len(basis.data[i][k]) |->
                    RMul(scale.data[i], basis.data[i][k][l])]]]))

orthonormal_basis(self, basis, base_point) ==
    Only({IF norms.kind = "raise" THEN norms
          ELSE einsum_i_ikl_ikl(reciprocal_sqrt(norms.val), basis) :
          norms \in {squared_norm(self, basis, base_point)}})

(***************************************************************************)
(* RiemannianCometric: the Hamiltonian formulation.                        *)
(***************************************************************************)
\* A Python tuple.
Tuple(items) == [tuple |-> items]
IsArr(x) == "ndim" \in DOMAIN x

\* gs.einsum('...ij,...j->...i', mat, vec) of one matrix and one vector.
einsum_ij_j_i(mat, vec) ==
    Arr(1, [i \in 1..Len(mat.data) |->
        RSum([j \in 1..Len(vec.data) |-> RMul(mat.data[i][j], vec.data[j])])])

\* gs.einsum('...i,...i->...', a, b) of two vectors.
einsum_i_i(a, b) ==
    Arr(0, RSum([i \in 1..Len(a.data) |-> RMul(a.data[i], b.data[i])]))

inner_coproduct(self, covector_1, covector_2, base_point) ==
    Only({IF cometric_mat.kind = "raise" THEN cometric_mat
          ELSE LET vector_2 == einsum_ij_j_i(cometric_mat.val, covector_2)
               IN  Value(einsum_i_i(covector_1, vector_2)) :
          cometric_mat \in {cometric_matrix(self, base_point)}})

hamiltonian(self, state) ==
    LET position == state.tuple[1]
        momentum == state.tuple[2]
    IN  Only({IF inner.kind = "raise" THEN inner
              ELSE Value(Arr(0, RMul(Rat(1, 2), inner.val.data))) :
              inner \in {inner_coproduct(self, momentum, momentum,
                                         position)}})

\* The gradient of hamiltonian at state, a tuple shaped like state: the
\* partial derivatives with respect to position and with respect to
\* momentum.  The cometric matrix K is affine in position with the constant
\* Jacobian P1, so that
\*   dH/dposition[c] = 1/2 sum_ij momentum[i] P1[i][j][c] momentum[j]
\*   dH/dmomentum[i] = 1/2 sum_j (K[i][j] + K[j][i]) momentum[j].
grad_hamiltonian(self, state) ==
    LET d == self.dim
        p == state.tuple[2].data
    IN  Only({Tuple(<<
            Arr(1, [c \in 1..d |-> RMul(Rat(1, 2),
                RSum([i \in 1..d |-> RSum([j \in 1..d |->
                    RMul(RMul(p[i], self.P1[i][j][c]), p[j])])]))]),
            Arr(1, [i \in 1..d |-> RMul(Rat(1, 2),
                RSum([j \in 1..d |->
                    RMul(RAdd(K[i][j], K[j][i]), p[j])]))]) >>) :
            K \in {cometric_matrix(self, state.tuple[1]).val.data}})

\* gs.autograd.value_and_grad(self.hamiltonian)(state): the tuple
\* (value, gradient).
value_and_grad_hamiltonian(self, state) ==
    Only({IF value.kind = "raise" THEN value
          ELSE Value(Tuple(<<value.val, grad_hamiltonian(self, state)>>)) :
          value \in {hamiltonian(self, state)}})

\* - x: defined for arrays, a TypeError for a tuple.
negative(x) ==
    IF ~IsArr(x) THEN Raise("TypeError", "neg")
    ELSE IF x.ndim = 0 THEN Value(Arr(0, RNeg(x.data)))
    ELSE Value(Arr(1, [i \in 1..Len(x.data) |-> RNeg(x.data[i])]))

Hamiltonian_equation(self, position, momentum) ==
    LET state == Tuple(<<position, momentum>>)
    IN  Only({IF vg.kind = "raise" THEN vg
              ELSE LET H_q == vg.val.tuple[1]
                       H_p == vg.val.tuple[2]
                   IN  Only({IF minus_H_q.kind = "raise" THEN minus_H_q
                             ELSE Value(Tuple(<<H_p, minus_H_q.val>>)) :
                             minus_H_q \in {negative(H_q)}}) :
              vg \in {value_and_grad_hamiltonian(self, state)}})

\* x + k * v for an array x of shape [dim] and v of shape [dim] or []; a
\* tuple v cannot be multiplied by a float.
axpy(x, k, v) ==
    IF ~IsArr(v) THEN Raise("TypeError", "integrate")
    ELSE Value(Arr(1, [i \in 1..Len(x.data) |->
            RAdd(x.data[i],
                 RMul(k, IF v.ndim = 0 THEN v.data ELSE v.data[i]))]))

\* The state moved by k times the slope (velocity, acceleration).
advance(state, k, slope) ==
    LET point_new == axpy(state.tuple[1], k, slope.tuple[1])
        vector_new == axpy(state.tuple[2], k, slope.tuple[2])
    IN  IF point_new.kind = "raise" THEN point_new
        ELSE IF vector_new.kind = "raise" THEN vector_new
        ELSE Value(Tuple(<<point_new.val, vector_new.val>>))

\* The vector field handed to the integrator, at a state.
force(self, state) ==
    Hamiltonian_equation(self, state.tuple[1], state.tuple[2])

\* "euler": the explicit first-order scheme.
euler_step(self, state, dt) ==
    Only({IF k1.kind = "raise" THEN k1 ELSE advance(state, dt, k1.val) :
          k1 \in {force(self, state)}})

\* The slope at the state moved by k times slope; an exception is passed on.
slope_at(self, state, k, slope) ==
    IF slope.kind = "raise" THEN slope
    ELSE Only({IF s.kind = "raise" THEN s ELSE force(self, s.val) :
               s \in {advance(state, k, slope.val)}})

\* sum + k * slope when both are values, else the first exception.
add_slope(sum, k, slope) ==
    IF sum.kind = "raise" THEN sum
    ELSE IF slope.kind = "raise" THEN slope
    ELSE advance(sum.val, k, slope.val)

\* "rk4": the fourth-order Runge-Kutta scheme.
rk4_step(self, state, dt) ==
    LET half == RMul(Rat(1, 2), dt)
        third == RMul(Rat(1, 3), dt)
        sixth == RMul(Rat(1, 6), dt)
    IN  Only({Only({Only({Only({
            add_slope(add_slope(add_slope(add_slope(
                Value(state), sixth, k1), third, k2), third, k3), sixth, k4) :
            k4 \in {slope_at(self, state, dt, k3)}}) :
            k3 \in {slope_at(self, state, half, k2)}}) :
            k2 \in {slope_at(self, state, half, k1)}}) :
            k1 \in {force(self, state)}})

step_function(self, step, state, dt) ==
    IF step = "rk4" THEN rk4_step(self, state, dt)
    ELSE euler_step(self, state, dt)

\* The integrator's loop from step k (0-based) on: each step appends the
\* new position and momentum to the trajectory.
RECURSIVE integrate_loop(_, _, _, _, _)
integrate_loop(self, step, n_steps, k, st) ==
    IF k >= n_steps \/ st.raised.kind = "raise" THEN st
    ELSE
    LET dt == Rat(1, n_steps)
        positions == st.acc.positions
        momenta == st.acc.momenta
        current_state == Tuple(<<positions[Len(positions)],
                                 momenta[Len(momenta)]>>)
        ev == Append(st.evals, k)
        Updated(new) ==
            IF new.kind = "raise" THEN Loop(new, st.acc, ev)
            ELSE Loop(NoException,
                      [positions |-> Append(positions, new.val.tuple[1]),
                       momenta |-> Append(momenta, new.val.tuple[2])], ev)
    IN  Only({integrate_loop(self, step, n_steps, k + 1, st1) :
              st1 \in {Updated(new) :
                  new \in {step_function(self, step, current_state, dt)}}})

\* integrate(self.Hamiltonian_equation, initial_state, n_steps=n_steps,
\* step=step): the trajectory of positions and that of momenta.
integrate(self, initial_state, n_steps, step) ==
    integrate_loop(self, step, n_steps, 0,
                   Loop(NoException,
                        [positions |-> <<initial_state.tuple[1]>>,
                         momenta |-> <<initial_state.tuple[2]>>], <<>>))

\* The integration exp runs: from the state (base_point, cotangent_vec).
exp_flow(self, cotangent_vec, base_point, n_steps, step) ==
    integrate(self, Tuple(<<base_point, cotangent_vec>>), n_steps, step)

\* What exp returns after the integration st: the last position of the
\* flow, or the exception the integration raised.
exp_return(st) ==
    IF st.raised.kind = "raise" THEN st.raised
    ELSE LET flow == st.acc.positions
         IN  Value(flow[Len(flow)])

exp(self, cotangent_vec, base_point, n_steps, step, point_type) ==
    Only({exp_return(st) :
          st \in {exp_flow(self, cotangent_vec, base_point, n_steps, step)}})

(***************************************************************************)
(* Arguments of the calls.                                                 *)
(***************************************************************************)
Coords == {R(c) : c \in 0..MaxCoord}
Points(d) == [1..d -> Coords]
TangentVecs(d) == [1..d -> {R(-1), R(0), R(1)}]
\* Points on the first coordinate axis, the elements of point sequences.
AxisPoints(d) == {[i \in 1..d |-> IF i = 1 THEN c ELSE R(0)] : c \in Coords}
UnitVecs(d) == {[i \in 1..d |-> IF i = k THEN R(1) ELSE R(0)] : k \in 1..d}

\* A batch of two or three tangent vectors.
Batches(d) ==
    {<<v, w>> : v, w \in UnitVecs(d)} \cup {<<v, v, v>> : v \in UnitVecs(d)}

\* A tangent vector argument: one vector, or a batch.
VecArgs(d) ==
    {Arr(1, v) : v \in UnitVecs(d)} \cup {Arr(2, vs) : vs \in Batches(d)}

\* A basis argument: dim vectors (shape [dim, dim]), each a unit vector or
\* twice one, or dim matrices of unit vectors (shape [dim, dim, dim]).
BasisVecs(d) == UnitVecs(d) \cup
    {[i \in 1..d |-> RMul(R(2), v[i])] : v \in UnitVecs(d)}
BasisArgs(d) ==
    {Arr(2, vs) : vs \in [1..d -> BasisVecs(d)]}
    \cup {Arr(3, [i \in 1..d |-> vs]) : vs \in [1..d -> UnitVecs(d)]}

\* A point argument: one point, or a batch of two.
PointArgs(d) ==
    {Arr(1, x) : x \in Points(d)}
    \cup {Arr(2, <<x, y>>) : x, y \in AxisPoints(d)}

\* The arguments of inner_product: every pair of single tangent vectors at
\* every single base point, and the batched combinations of fewer vectors.
InnerProductArgs(d) ==
    {<<Arr(1, a), Arr(1, b), Arr(1, x)>> :
        a \in TangentVecs(d), b \in TangentVecs(d), x \in Points(d)}
    \cup {<<a, b, x>> : a \in VecArgs(d), b \in VecArgs(d),
                        x \in {y \in PointArgs(d) : y.ndim = 2}}
    \cup {<<a, b, Arr(1, x)>> : a \in VecArgs(d), b \in VecArgs(d),
                                x \in AxisPoints(d)}

NoCall == [op |-> "none", args |-> <<>>]
NoRet == [kind |-> "none"]
\* No test fixture, no metric object.
NoObject == [cls |-> "none"]

Init ==
    /\ metric \in MetricObjects
    /\ pc = "idle"
    /\ call = NoCall
    /\ ret = NoRet
    /\ evals = <<>>
    /\ space = NoObject
    /\ random = 0

\* A return that also stores a signature in the object.
Returns_storing(op, args, result, ev) ==
    /\ pc' = "returned"
    /\ call' = [op |-> op, args |-> args]
    /\ ret' = result
    /\ evals' = ev
    /\ metric' = [metric EXCEPT !.signature = <<metric.dim, 0>>]
    /\ UNCHANGED <<space, random>>

Returns(op, args, result, ev) ==
    /\ pc' = "returned"
    /\ call' = [op |-> op, args |-> args]
    /\ ret' = result
    /\ evals' = ev
    /\ UNCHANGED <<metric, space, random>>

\* Every square root the call takes is the root of a perfect square.
Exact(sq) ==
    sq.kind = "value" =>
        \A n \in 1..Len(sq.val.data) : \A k \in 1..Len(sq.val.data[n]) :
            IsSquare(sq.val.data[n][k])

Call_inner_product ==
    /\ pc = "idle"
    /\ \E args \in InnerProductArgs(metric.dim) :
        Returns("inner_product", args,
                inner_product(metric, args[1], args[2], args[3]), <<>>)

Call_squared_norm ==
    /\ pc = "idle"
    /\ \E v \in VecArgs(metric.dim), base_point \in PointArgs(metric.dim) :
        Returns("squared_norm", <<v, base_point>>,
                squared_norm(metric, v, base_point), <<>>)

Call_norm ==
    /\ pc = "idle"
    /\ \E v \in VecArgs(metric.dim), base_point \in PointArgs(metric.dim) :
        /\ Exact(squared_norm(metric, v, base_point))
        /\ Returns("norm", <<v, base_point>>,
                   norm(metric, v, base_point), <<>>)

Call_squared_dist ==
    /\ pc = "idle"
    /\ \E a, b \in PointArgs(metric.dim) :
        Returns("squared_dist", <<a, b>>, squared_dist(metric, a, b), <<>>)

Call_dist ==
    /\ pc = "idle"
    /\ \E a, b \in PointArgs(metric.dim) :
        /\ Exact(squared_dist(metric, a, b))
        /\ Returns("dist", <<a, b>>, dist(metric, a, b), <<>>)

\* Sequences of at most MaxN points of the first coordinate axis.
PointSeqs(d, least) ==
    UNION {[1..n -> AxisPoints(d)] : n \in least..MaxN}

ExactPairs(self, pts) ==
    \A x \in pts : \A y \in pts :
        Exact(squared_dist(self, Arr(1, x), Arr(1, y)))

Range(f) == {f[k] : k \in DOMAIN f}

Call_dist_pairwise ==
    /\ pc = "idle"
    /\ \E pts \in PointSeqs(metric.dim, 0) :
        /\ ExactPairs(metric, Range(pts))
        /\ Returns("dist_pairwise", <<Arr(2, pts)>>,
                   dist_pairwise(metric, Arr(2, pts)),
                   dist_pairwise_run(metric, Arr(2, pts)).evals)

Call_diameter ==
    /\ pc = "idle"
    /\ \E pts \in PointSeqs(metric.dim, 0) :
        /\ ExactPairs(metric, Range(pts))
        /\ Returns("diameter", <<Arr(2, pts)>>,
                   diameter(metric, Arr(2, pts)),
                   diameter_run(metric, Arr(2, pts)).evals)

Call_closest_neighbor_index ==
    /\ pc = "idle"
    /\ \E x \in AxisPoints(metric.dim), pts \in PointSeqs(metric.dim, 1) :
        /\ ExactPairs(metric, Range(pts) \cup {x})
        /\ Returns("closest_neighbor_index", <<Arr(1, x), Arr(2, pts)>>,
                   closest_neighbor_index(metric, Arr(1, x), Arr(2, pts)),
                   <<>>)

Call_orthonormal_basis ==
    /\ pc = "idle"
    /\ \E basis \in BasisArgs(metric.dim), x \in AxisPoints(metric.dim) :
        /\ Exact(squared_norm(metric, basis, Arr(1, x)))
        /\ Returns("orthonormal_basis", <<basis, Arr(1, x)>>,
                   orthonormal_basis(metric, basis, Arr(1, x)), <<>>)

Call_metric_matrix ==
    /\ pc = "idle"
    /\ \E base_point \in PointArgs(metric.dim) :
        Returns("metric_matrix", <<base_point>>,
                metric_matrix(metric, base_point), <<>>)

Call_inner_product_inverse_matrix ==
    /\ pc = "idle"
    /\ \E base_point \in PointArgs(metric.dim) :
        Returns("inner_product_inverse_matrix", <<base_point>>,
                inner_product_inverse_matrix(metric, base_point), <<>>)

Call_inner_product_derivative_matrix ==
    /\ pc = "idle"
    /\ \E x \in Points(metric.dim) :
        Returns("inner_product_derivative_matrix", <<Arr(1, x)>>,
                inner_product_derivative_matrix(metric, Arr(1, x)), <<>>)

Call_christoffels ==
    /\ pc = "idle"
    /\ \E x \in Points(metric.dim) :
        Returns("christoffels", <<Arr(1, x)>>,
                christoffels(metric, Arr(1, x)), <<>>)

Call_loss ==
    /\ pc = "idle"
    /\ \E y_pred, y_true \in PointArgs(metric.dim) :
        Returns("loss", <<y_pred, y_true>>, loss(y_pred, y_true, metric), <<>>)

Call_grad ==
    /\ pc = "idle"
    /\ \E y_pred, y_true \in PointArgs(metric.dim) :
        Returns("grad", <<y_pred, y_true>>, grad(y_pred, y_true, metric), <<>>)

\* The operations of the cometric class.
IsCometric == metric.cls = "RiemannianCometric"
Covectors(d) == TangentVecs(d)
\* n_steps: none, a few, and the default.
StepCounts == (0..MaxSteps) \cup {N_STEPS}
Schemes == {"euler", "rk4"}
PointTypes == {"None", "vector", "matrix"}

Call_cometric_matrix ==
    /\ pc = "idle" /\ IsCometric
    /\ \E base_point \in PointArgs(metric.dim) :
        Returns("cometric_matrix", <<base_point>>,
                cometric_matrix(metric, base_point), <<>>)

Call_inner_coproduct ==
    /\ pc = "idle" /\ IsCometric
    /\ \E a, b \in Covectors(metric.dim), x \in AxisPoints(metric.dim) :
        Returns("inner_coproduct", <<Arr(1, a), Arr(1, b), Arr(1, x)>>,
                inner_coproduct(metric, Arr(1, a), Arr(1, b), Arr(1, x)),
                <<>>)

Call_hamiltonian ==
    /\ pc = "idle" /\ IsCometric
    /\ \E p \in Covectors(metric.dim), q \in Points(metric.dim) :
        Returns("hamiltonian", <<Tuple(<<Arr(1, q), Arr(1, p)>>)>>,
                hamiltonian(metric, Tuple(<<Arr(1, q), Arr(1, p)>>)), <<>>)

Call_Hamiltonian_equation ==
    /\ pc = "idle" /\ IsCometric
    /\ \E p \in Covectors(metric.dim), q \in Points(metric.dim) :
        Returns("Hamiltonian_equation", <<Arr(1, q), Arr(1, p)>>,
                Hamiltonian_equation(metric, Arr(1, q), Arr(1, p)), <<>>)

\* The call of exp, and the integrator steps it has run.
Call_exp ==
    /\ pc = "idle" /\ IsCometric
    /\ \E p \in Covectors(metric.dim), q \in Points(metric.dim),
          n_steps \in StepCounts, step \in Schemes,
          point_type \in PointTypes :
        Returns("exp", <<Arr(1, p), Arr(1, q), n_steps, step, point_type>>,
                exp(metric, Arr(1, p), Arr(1, q), n_steps, step, point_type),
                exp_flow(metric, Arr(1, p), Arr(1, q), n_steps, step).evals)

\* The caller takes the result; the object is ready for the next call.
Return ==
    /\ pc = "returned"
    /\ pc' = "idle"
    /\ call' = NoCall
    /\ ret' = NoRet
    /\ evals' = <<>>
    /\ UNCHANGED <<metric, space, random>>

Next ==
    \/ Call_inner_product
    \/ Call_squared_norm
    \/ Call_norm
    \/ Call_squared_dist
    \/ Call_dist
    \/ Call_dist_pairwise
    \/ Call_diameter
    \/ Call_closest_neighbor_index
    \/ Call_orthonormal_basis
    \/ Call_metric_matrix
    \/ Call_inner_product_inverse_matrix
    \/ Call_inner_product_derivative_matrix
    \/ Call_christoffels
    \/ Call_loss
    \/ Call_grad
    \/ Call_cometric_matrix
    \/ Call_inner_coproduct
    \/ Call_hamiltonian
    \/ Call_Hamiltonian_equation
    \/ Call_exp
    \/ Return

Spec == Init /\ [][Next]_vars

(***************************************************************************)
(* geomstats/test/geometry/base.py: the arrays of the checks.              *)
(***************************************************************************)
NdArray(shape, data) == [shape |-> shape, data |-> data]

\* The number of entries of an array of the given shape.
RECURSIVE Size(_)
Size(shape) == IF shape = <<>> THEN 1 ELSE Head(shape) * Size(Tail(shape))

\* gs.ones(shape), gs.zeros(n, dtype=bool), gs.ones(n, dtype=bool).
ones(shape) == NdArray(shape, [k \in 1..Size(shape) |-> 1])
zeros_bool(n) == NdArray(<<n>>, [k \in 1..n |-> FALSE])
ones_bool(n) == NdArray(<<n>>, [k \in 1..n |-> TRUE])

\* gs.ndim(x).
ndim(x) == Len(x.shape)

\* x[n - 1]: element n along the first axis.
Element(x, n) ==
    LET m == Size(Tail(x.shape))
    IN  NdArray(Tail(x.shape), SubSeq(x.data, (n - 1) * m + 1, n * m))

\* n_reps copies of x along a new first axis.
Tile(x, n_reps) ==
    NdArray(<<n_reps>> \o x.shape,
            [k \in 1..(n_reps * Len(x.data)) |->
                x.data[((k - 1) % Len(x.data)) + 1]])

\* The verdict of a check.
Passed == [kind |-> "passed"]
Failed(by) == [kind |-> "failed", origin |-> by]

\* The entries two arrays are compared by, a single entry being broadcast.
Comparable(a, b) ==
    a.shape = b.shape \/ Len(a.data) = 1 \/ Len(b.data) = 1
Pairs(a, b) ==
    IF a.shape = b.shape
    THEN {<<a.data[k], b.data[k]>> : k \in 1..Len(a.data)}
    ELSE IF Len(a.data) = 1
    THEN {<<a.data[1], b.data[k]>> : k \in 1..Len(b.data)}
    ELSE {<<a.data[k], b.data[1]>> : k \in 1..Len(a.data)}

\* self.assertAllEqual(a, b), self.assertAllClose(a, b, atol=atol) and
\* self.assertEqual(a, b) of geomstats.test.test_case.TestCase.
assertAllEqual(a, b) ==
    IF Comparable(a, b) /\ \A p \in Pairs(a, b) : p[1] = p[2] THEN Passed
    ELSE Failed("assertAllEqual")

assertAllClose(a, b, atol) ==
    IF Comparable(a, b) /\ \A p \in Pairs(a, b) : Abs(p[1] - p[2]) <= atol
    THEN Passed
    ELSE Failed("assertAllClose")

assertEqual(a, b) == IF a = b THEN Passed ELSE Failed("assertEqual")

(***************************************************************************)
(* The fixture self.space: a space of arrays of the declared shape whose   *)
(* entries outside a set of free positions are zero (a linear subspace).   *)
(***************************************************************************)
Space(shape, free) ==
    [cls |-> "VectorSpace", shape |-> shape, point_ndim |-> Len(shape),
     free |-> free, dim |-> Cardinality({k \in 1..Len(free) : free[k]})]

Spaces ==
    { Space(<<1>>, <<TRUE>>),
      Space(<<2>>, <<TRUE, TRUE>>),
      Space(<<2>>, <<TRUE, FALSE>>),
      Space(<<2, 2>>, <<TRUE, FALSE, FALSE, TRUE>>) }

\* The entries of one point of the declared shape lie in the space.
InSpace(self, data) == \A k \in 1..Len(data) : self.free[k] \/ data[k] = 0

\* self.space.belongs(point): one boolean for a point, one for each element
\* of a batch; a point that has not the declared shape does not belong.
belongs(self, point) ==
    IF ndim(point) = self.point_ndim + 1
    THEN NdArray(<<point.shape[1]>>, [n \in 1..point.shape[1] |->
            /\ Tail(point.shape) = self.shape
            /\ InSpace(self, Element(point, n).data)])
    ELSE NdArray(<<>>, << /\ point.shape = self.shape
                          /\ InSpace(self, point.data) >>)

\* self.space.projection(point): the entries outside the free positions
\* are set to zero.
projection(self, point) ==
    NdArray(point.shape, [k \in 1..Len(point.data) |->
        IF self.free[((k - 1) % Len(self.free)) + 1] THEN point.data[k]
        ELSE 0])

\* self.space.to_tangent(vector, base_point) and
\* self.space.is_tangent(vector, base_point, atol): the tangent space of a
\* vector space at every point is the space.
to_tangent(self, vector, base_point) == projection(self, vector)
is_tangent(self, vector, base_point, atol) == belongs(self, vector)

\* self.space.basis: the dim unit arrays on the free positions, stacked.
space_basis(self) ==
    LET m == Len(self.free)
        position(i) == CHOOSE k \in 1..m :
            self.free[k] /\ Cardinality({j \in 1..k : self.free[j]}) = i
    IN  NdArray(<<self.dim>> \o self.shape,
                [k \in 1..(self.dim * m) |->
                    IF ((k - 1) % m) + 1 = position(((k - 1) \div m) + 1)
                    THEN 1 ELSE 0])

(***************************************************************************)
(* The process-wide random source: its state is a seed, every draw moves   *)
(* it on.                                                                  *)
(***************************************************************************)
MaxSeed == 2     \* the states of the random source are 0..MaxSeed
Seeds == 0..MaxSeed
Reseeded(seed) == (seed + 1) % (MaxSeed + 1)

\* The entry the source in state seed gives position k of a draw.
Draw(seed, k) == ((seed + k * k) % 3) - 1

\* self.space.random_point(n_points), in the state seed of the random
\* source: a point of the space for n_points = 1, else a batch.
random_point(self, n_points, seed) ==
    LET m == Len(self.free)
        shape == IF n_points = 1 THEN self.shape
                 ELSE <<n_points>> \o self.shape
    IN  NdArray(shape, [k \in 1..(n_points * m) |->
            IF self.free[((k - 1) % m) + 1] THEN Draw(seed, k) ELSE 0])

\* geomstats.test.vectorization.generate_vectorization_data for one record:
\* the record as it is and, for n_reps repetitions, with the arguments
\* named in arg_names and the expected output batched.  The arguments are
\* batched together.
generate_vectorization_data(datum, arg_names, n_reps) ==
    << datum,
       [name \in DOMAIN datum |->
           IF name \in arg_names \cup {"expected"}
           THEN Tile(datum[name], n_reps) ELSE datum[name]] >>

\* The verdict of running the checks of a list in order: the first failure.
FirstFailure(verdicts) ==
    IF \A k \in 1..Len(verdicts) : verdicts[k] = Passed THEN Passed
    ELSE verdicts[CHOOSE k \in 1..Len(verdicts) :
            /\ verdicts[k] # Passed
            /\ \A j \in 1..(k - 1) : verdicts[j] = Passed]

\* What a check leaves: its verdict and the state of the random source.
Ran(verdict, seed) == [verdict |-> verdict, random |-> seed]

(***************************************************************************)
(* ManifoldTestCase.                                                       *)
(***************************************************************************)
test_belongs(self, point, expected, atol) ==
    assertAllEqual(belongs(self, point), expected)

test_belongs_vec(self, n_reps, atol, seed) ==
    LET point == random_point(self, 1, seed)
        res == belongs(self, point)
        vec_data == generate_vectorization_data(
            [point |-> point, expected |-> res], {"point"}, n_reps)
    IN  Ran(FirstFailure([k \in 1..Len(vec_data) |->
                test_belongs(self, vec_data[k].point, vec_data[k].expected,
                             atol)]),
            Reseeded(seed))

\* A shape with one more axis at the end of the declared shape.
extended_shape(self) == Append(self.shape, 1)

\* shape = list(self.space.shape); shape[0] += 1.
malformed_shape(self) == [self.shape EXCEPT ![1] = @ + 1]

\* n_batch = [n_points] if n_points else []; point = gs.ones(n_batch + shape).
not_belongs_point(self, n_points) ==
    LET n_batch == IF n_points # 0 THEN <<n_points>> ELSE <<>>
    IN  ones(n_batch \o malformed_shape(self))

test_not_belongs(self, n_points, atol) ==
    test_belongs(self, not_belongs_point(self, n_points),
                 zeros_bool(n_points), atol)

test_random_point_belongs(self, n_points, atol, seed) ==
    LET point == random_point(self, n_points, seed)
        expected == ones_bool(n_points)
    IN  Ran(test_belongs(self, point, expected, atol), Reseeded(seed))

test_random_point_shape(self, n_points, seed) ==
    LET point == random_point(self, n_points, seed)
        expected_ndim == self.point_ndim + (IF n_points > 1 THEN 1 ELSE 0)
        trailing == SubSeq(point.shape,
                           Len(point.shape) - self.point_ndim + 1,
                           Len(point.shape))
    IN  Ran(FirstFailure(<<
                assertEqual(ndim(point), expected_ndim),
                assertEqual(trailing, self.shape),
                IF n_points > 1 THEN assertEqual(point.shape[1], n_points)
                ELSE Passed >>),
            Reseeded(seed))

test_is_tangent(self, vector, base_point, expected, atol) ==
    assertAllEqual(is_tangent(self, vector, base_point, atol), expected)

test_to_tangent(self, vector, base_point, expected, atol) ==
    assertAllClose(to_tangent(self, vector, base_point), expected, atol)

(***************************************************************************)
(* VectorSpaceTestCase.                                                    *)
(***************************************************************************)
test_projection(self, point, expected, atol) ==
    assertAllClose(projection(self, point), expected, atol)

test_projection_vec(self, n_reps, atol, seed) ==
    LET point == random_point(self, 1, seed)
        proj_point == projection(self, point)
        vec_data == generate_vectorization_data(
            [point |-> point, expected |-> proj_point], {"point"}, n_reps)
    IN  Ran(FirstFailure([k \in 1..Len(vec_data) |->
                test_projection(self, vec_data[k].point,
                                vec_data[k].expected, atol)]),
            Reseeded(seed))

test_projection_belongs(self, n_points, atol, seed) ==
    LET point == random_point(self, n_points, seed)
        proj_point == projection(self, point)
        expected == ones_bool(n_points)
    IN  Ran(test_belongs(self, proj_point, expected, atol), Reseeded(seed))

test_is_tangent_vec(self, n_reps, atol, seed) ==
    LET vec == random_point(self, 1, seed)
        point == random_point(self, 1, Reseeded(seed))
        tangent_vec == to_tangent(self, vec, point)
        res == is_tangent(self, tangent_vec, point, atol)
        vec_data == generate_vectorization_data(
            [vector |-> tangent_vec, base_point |-> point, expected |-> res],
            {"vector", "base_point"}, n_reps)
    IN  Ran(FirstFailure([k \in 1..Len(vec_data) |->
                test_is_tangent(self, vec_data[k].vector,
                                vec_data[k].base_point,
                                vec_data[k].expected, atol)]),
            Reseeded(Reseeded(seed)))

test_to_tangent_vec(self, n_reps, atol, seed) ==
    LET vec == random_point(self, 1, seed)
        point == random_point(self, 1, Reseeded(seed))
        res == to_tangent(self, vec, point)
        vec_data == generate_vectorization_data(
            [vector |-> vec, base_point |-> point, expected |-> res],
            {"vector", "base_point"}, n_reps)
    IN  Ran(FirstFailure([k \in 1..Len(vec_data) |->
                test_to_tangent(self, vec_data[k].vector,
                                vec_data[k].base_point,
                                vec_data[k].expected, atol)]),
            Reseeded(Reseeded(seed)))

test_to_tangent_is_tangent(self, n_points, atol, seed) ==
    LET vec == random_point(self, n_points, seed)
        point == random_point(self, n_points, Reseeded(seed))
        tangent_vec == to_tangent(self, vec, point)
        expected == ones_bool(n_points)
    IN  Ran(test_is_tangent(self, tangent_vec, point, expected, atol),
            Reseeded(Reseeded(seed)))

test_random_point_is_tangent(self, n_points, atol, seed) ==
    LET points == random_point(self, n_points, seed)
        res == is_tangent(self, points, None, atol)
    IN  Ran(assertAllEqual(res, ones_bool(n_points)), Reseeded(seed))

test_to_tangent_is_projection(self, n_points, atol, seed) ==
    LET vec == random_point(self, n_points, seed)
        result == to_tangent(self, vec, None)
        expected == projection(self, vec)
    IN  Ran(assertAllClose(result, expected, atol), Reseeded(seed))

test_basis_cardinality(self) ==
    assertEqual(space_basis(self).shape[1], self.dim)

test_basis_belongs(self, atol) ==
    LET result == belongs(self, space_basis(self))
    IN  assertAllEqual(result, ones_bool(result.shape[1]))

test_basis(self, expected, atol) ==
    assertAllClose(space_basis(self), expected, atol)

(***************************************************************************)
(* The checks, run in any order on the fixture.                            *)
(***************************************************************************)
Tolerances == {0, 1}
PointCounts == 1..MaxN
Repetitions == 1..MaxN

\* Literal points: of the declared shape, in and out of the space, a batch,
\* and a point of another shape.
LiteralPoints(self) ==
    {ones(shape) : shape \in {self.shape, <<2>> \o self.shape,
                              malformed_shape(self)}}
    \cup {projection(self, ones(self.shape)),
          projection(self, ones(<<2>> \o self.shape))}

\* Literal expected outputs of belongs and is_tangent.
ExpectedBooleans ==
    {NdArray(<<>>, <<b>>) : b \in BOOLEAN} \cup {ones_bool(2), zeros_bool(2)}

TestInit ==
    /\ metric = NoObject
    /\ pc = "idle"
    /\ call = NoCall
    /\ ret = NoRet
    /\ evals = <<>>
    /\ space \in Spaces
    /\ random \in Seeds

\* A check that ends by rebinding self.space to the whole array space.
Finishes_rebinding(op, args, verdict, seed, handed) ==
    /\ pc' = "returned"
    /\ call' = [op |-> op, args |-> args]
    /\ ret' = verdict
    /\ random' = seed
    /\ evals' = handed
    /\ space' = Space(space.shape, [k \in DOMAIN space.free |-> TRUE])
    /\ UNCHANGED metric

\* A check ends: no check assigns to self.space.
Finishes(op, args, verdict, seed, handed) ==
    /\ pc' = "returned"
    /\ call' = [op |-> op, args |-> args]
    /\ ret' = verdict
    /\ random' = seed
    /\ evals' = handed
    /\ UNCHANGED <<metric, space>>

Run_test_belongs ==
    /\ pc = "idle"
    /\ \E point \in LiteralPoints(space), expected \in ExpectedBooleans,
          atol \in Tolerances :
        Finishes("test_belongs", <<point, expected, atol>>,
                 test_belongs(space, point, expected, atol), random, <<>>)

Run_test_belongs_vec ==
    /\ pc = "idle"
    /\ \E n_reps \in Repetitions, atol \in Tolerances :
        \E ran \in {test_belongs_vec(space, n_reps, atol, random)} :
            Finishes("test_belongs_vec", <<n_reps, atol>>,
                     ran.verdict, ran.random, <<>>)

\* test_not_belongs, with the point and the expected output it hands to
\* test_belongs.
Run_test_not_belongs ==
    /\ pc = "idle"
    /\ \E n_points \in {0} \cup PointCounts, atol \in Tolerances :
        Finishes("test_not_belongs", <<n_points, atol>>,
                 test_not_belongs(space, n_points, atol), random,
                 <<not_belongs_point(space, n_points), zeros_bool(n_points)>>)

Run_test_random_point_belongs ==
    /\ pc = "idle"
    /\ \E n_points \in PointCounts, atol \in Tolerances :
        \E ran \in {test_random_point_belongs(space, n_points, atol, random)} :
            Finishes("test_random_point_belongs", <<n_points, atol>>,
                     ran.verdict, ran.random, <<>>)

Run_test_random_point_shape ==
    /\ pc = "idle"
    /\ \E n_points \in PointCounts :
        \E ran \in {test_random_point_shape(space, n_points, random)} :
            Finishes("test_random_point_shape", <<n_points>>,
                     ran.verdict, ran.random, <<>>)

Run_test_is_tangent ==
    /\ pc = "idle"
    /\ \E vector \in LiteralPoints(space), expected \in ExpectedBooleans,
          atol \in Tolerances :
        Finishes("test_is_tangent",
                 <<vector, ones(space.shape), expected, atol>>,
                 test_is_tangent(space, vector, ones(space.shape), expected,
                                 atol),
                 random, <<>>)

Run_test_to_tangent ==
    /\ pc = "idle"
    /\ \E vector, expected \in LiteralPoints(space), atol \in Tolerances :
        Finishes("test_to_tangent",
                 <<vector, ones(space.shape), expected, atol>>,
                 test_to_tangent(space, vector, ones(space.shape), expected,
                                 atol),
                 random, <<>>)

Run_test_projection ==
    /\ pc = "idle"
    /\ \E point, expected \in LiteralPoints(space), atol \in Tolerances :
        Finishes("test_projection", <<point, expected, atol>>,
                 test_projection(space, point, expected, atol), random, <<>>)

Run_test_projection_vec ==
    /\ pc = "idle"
    /\ \E n_reps \in Repetitions, atol \in Tolerances :
        \E ran \in {test_projection_vec(space, n_reps, atol, random)} :
            Finishes("test_projection_vec", <<n_reps, atol>>,
                     ran.verdict, ran.random, <<>>)

Run_test_projection_belongs ==
    /\ pc = "idle"
    /\ \E n_points \in PointCounts, atol \in Tolerances :
        \E ran \in {test_projection_belongs(space, n_points, atol, random)} :
            Finishes("test_projection_belongs", <<n_points, atol>>,
                     ran.verdict, ran.random, <<>>)

Run_test_is_tangent_vec ==
    /\ pc = "idle"
    /\ \E n_reps \in Repetitions, atol \in Tolerances :
        \E ran \in {test_is_tangent_vec(space, n_reps, atol, random)} :
            Finishes("test_is_tangent_vec", <<n_reps, atol>>,
                     ran.verdict, ran.random, <<>>)

Run_test_to_tangent_vec ==
    /\ pc = "idle"
    /\ \E n_reps \in Repetitions, atol \in Tolerances :
        \E ran \in {test_to_tangent_vec(space, n_reps, atol, random)} :
            Finishes("test_to_tangent_vec", <<n_reps, atol>>,
                     ran.verdict, ran.random, <<>>)

Run_test_to_tangent_is_tangent ==
    /\ pc = "idle"
    /\ \E n_points \in PointCounts, atol \in Tolerances :
        \E ran \in {test_to_tangent_is_tangent(space, n_points, atol,
                                               random)} :
            Finishes("test_to_tangent_is_tangent", <<n_points, atol>>,
                     ran.verdict, ran.random, <<>>)

Run_test_random_point_is_tangent ==
    /\ pc = "idle"
    /\ \E n_points \in PointCounts, atol \in Tolerances :
        \E ran \in {test_random_point_is_tangent(space, n_points, atol,
                                                 random)} :
            Finishes("test_random_point_is_tangent", <<n_points, atol>>,
                     ran.verdict, ran.random, <<>>)

Run_test_to_tangent_is_projection ==
    /\ pc = "idle"
    /\ \E n_points \in PointCounts, atol \in Tolerances :
        \E ran \in {test_to_tangent_is_projection(space, n_points, atol,
                                                  random)} :
            Finishes("test_to_tangent_is_projection", <<n_points, atol>>,
                     ran.verdict, ran.random, <<>>)

Run_test_basis_cardinality ==
    /\ pc = "idle"
    /\ Finishes("test_basis_cardinality", <<>>,
                test_basis_cardinality(space), random, <<>>)

Run_test_basis_belongs ==
    /\ pc = "idle"
    /\ \E atol \in Tolerances :
        Finishes("test_basis_belongs", <<atol>>,
                 test_basis_belongs(space, atol), random, <<>>)

Run_test_basis ==
    /\ pc = "idle"
    /\ \E expected \in {space_basis(space), ones(<<space.dim>> \o space.shape)},
          atol \in Tolerances :
        Finishes("test_basis", <<expected, atol>>,
                 test_basis(space, expected, atol), random, <<>>)

TestNext ==
    \/ Run_test_belongs
    \/ Run_test_belongs_vec
    \/ Run_test_not_belongs
    \/ Run_test_random_point_belongs
    \/ Run_test_random_point_shape
    \/ Run_test_is_tangent
    \/ Run_test_to_tangent
    \/ Run_test_projection
    \/ Run_test_projection_vec
    \/ Run_test_projection_belongs
    \/ Run_test_is_tangent_vec
    \/ Run_test_to_tangent_vec
    \/ Run_test_to_tangent_is_tangent
    \/ Run_test_random_point_is_tangent
    \/ Run_test_to_tangent_is_projection
    \/ Run_test_basis_cardinality
    \/ Run_test_basis_belongs
    \/ Run_test_basis
    \/ Return

TestSpec == TestInit /\ [][TestNext]_vars

(***************************************************************************)
(* Properties.                                                             *)
(***************************************************************************)
Returned(op) == pc = "returned" /\ call.op = op

\* Element n of an argument under broadcasting: a single item is paired
\* with every element of a batch.
Item(x, n) ==
    IF x.ndim = 1 THEN x.data
    ELSE IF Len(x.data) = 1 THEN x.data[1] ELSE x.data[n]
Count(x) == IF x.ndim = 1 THEN 1 ELSE Len(x.data)
MaxCount(xs) == CHOOSE n \in {Count(x) : x \in xs} :
                    \A x \in xs : Count(x) <= n
Compatible(xs) == \A x \in xs : Count(x) \in {1, MaxCount(xs)}

\* sum over j, k of a[j] * G[j][k] * b[k]
Bilinear(a, G, b) ==
    RSum([j \in 1..Len(a) |->
        RSum([k \in 1..Len(b) |-> RMul(RMul(a[j], G[j][k]), b[k])])])
Dot(a, b) == RSum([j \in 1..Len(a) |-> RMul(a[j], b[j])])
Identity(d) == [j \in 1..d |-> [k \in 1..d |-> IF j = k THEN R(1) ELSE R(0)]]

ConcreteMetric ==
    metric.cls = "RiemannianMetric" /\ metric.concrete

\* C1: squared_dist(a, b) is the squared norm, taken at base point a, of
\* the log at base point a towards b: sum_jk v[j] * G(a)[j][k] * v[k] with
\* v = log(point=b, base_point=a), for every element of a batch.
C1_SquaredDistIsSquaredNormOfLog ==
    (Returned("squared_dist") /\ ConcreteMetric) =>
        LET a == call.args[1]
            b == call.args[2]
        IN  /\ ret.kind = "value"
            /\ Len(ret.val.data) = MaxCount({a, b})
            /\ \A n \in 1..MaxCount({a, b}) :
                LET v == LogVec(metric.conn, Item(b, n), Item(a, n))
                IN  ret.val.data[n]
                        = <<Bilinear(v, MatrixAt(metric, Item(a, n)), v)>>

\* C1 witness: squared_dist returned for two points where taking the log
\* or the norm at the other point would have given another number.
C1_Witness ==
    /\ Returned("squared_dist") /\ ConcreteMetric
    /\ call.args[1].ndim = 1 /\ call.args[2].ndim = 1
    /\ LET a == call.args[1].data
           b == call.args[2].data
           v == LogVec(metric.conn, b, a)
           w == LogVec(metric.conn, a, b)
       IN  /\ ret.kind = "value"
           /\ ret.val.data[1][1] # R(0)
           /\ ret.val.data[1][1] # Bilinear(w, MatrixAt(metric, a), w)
           /\ ret.val.data[1][1] # Bilinear(v, MatrixAt(metric, b), v)

\* C9: inner_product(a, b, base_point) is sum_jk a[j] * G[j][k] * b[k] with
\* G the metric matrix at the base point; it is the dot product of a and b
\* when G is the identity; an unbatched operand is paired with every
\* element of a batched one.
C9_InnerProductIsBilinearForm ==
    (Returned("inner_product") /\ ConcreteMetric
        /\ Compatible({call.args[1], call.args[2], call.args[3]})) =>
        LET a == call.args[1]
            b == call.args[2]
            x == call.args[3]
            N == MaxCount({a, b, x})
        IN  /\ ret.kind = "value"
            /\ Len(ret.val.data) = N
            /\ \A n \in 1..N :
                LET G == MatrixAt(metric, Item(x, n))
                IN  /\ ret.val.data[n]
                        = <<Bilinear(Item(a, n), G, Item(b, n))>>
                    /\ G = Identity(metric.dim) =>
                        ret.val.data[n] = <<Dot(Item(a, n), Item(b, n))>>

\* C9 witness: an unbatched tangent vector paired with a batch of two, at a
\* base point where the metric matrix is not the identity, with two
\* different inner products that both differ from the dot products.
C9_Witness ==
    /\ Returned("inner_product") /\ ConcreteMetric
    /\ call.args[1].ndim = 1 /\ call.args[2].ndim = 2 /\ call.args[3].ndim = 1
    /\ Len(call.args[2].data) = 2
    /\ ret.kind = "value"
    /\ ret.val.data[1] # ret.val.data[2]
    /\ \A n \in 1..2 :
        ret.val.data[n] # <<Dot(call.args[1].data, call.args[2].data[n])>>

\* The distance the metric defines from a to b: the norm at a of the log at
\* a towards b.
DistRef(a, b) ==
    LET v == LogVec(metric.conn, b, a)
    IN  sqrt(Bilinear(v, MatrixAt(metric, a), v))

\* The pairs (i, j), 0 <= i <= j < n, row by row.
RECURSIVE PairsFrom(_, _, _)
PairsFrom(n, i, j) ==
    IF i >= n THEN <<>>
    ELSE IF j >= n THEN PairsFrom(n, i + 1, i + 1)
    ELSE <<<<i, j>>>> \o PairsFrom(n, i, j + 1)

PairwiseEvaluations(n) ==
    /\ evals = PairsFrom(n, 0, 0)
    /\ Len(evals) = (n * (n + 1)) \div 2

\* C2 as stated: dist is evaluated once for each pair i <= j, row by row,
\* and the result is a symmetric n x n matrix D with D[i][i] = 0 and
\* D[i][j] = dist(p_i, p_j) for all i, j.
C2_Original ==
    (Returned("dist_pairwise") /\ ConcreteMetric
        /\ Len(call.args[1].data) >= 1) =>
        LET p == call.args[1].data
            n == Len(p)
        IN  /\ PairwiseEvaluations(n)
            /\ ret.kind = "value"
            /\ Len(ret.val.data) = n
            /\ \A i, j \in 1..n :
                /\ Len(ret.val.data[i]) = n
                /\ ret.val.data[i][j] = ret.val.data[j][i]
                /\ ret.val.data[i][i] = R(0)
                /\ ret.val.data[i][j] = DistRef(p[i], p[j])

\* C2 as amended: dist is evaluated once for each pair i <= j, row by row,
\* and the result is a symmetric n x n matrix D with D[i][i] = 0 and
\* D[i][j] = dist(p_i, p_j) for all i <= j; so D[i][j] = dist(p_i, p_j) for
\* all i, j when dist is symmetric on the points.
C2_PairwiseUpperTriangleMirrored ==
    (Returned("dist_pairwise") /\ ConcreteMetric
        /\ Len(call.args[1].data) >= 1) =>
        LET p == call.args[1].data
            n == Len(p)
        IN  /\ PairwiseEvaluations(n)
            /\ ret.kind = "value"
            /\ Len(ret.val.data) = n
            /\ \A i, j \in 1..n :
                /\ Len(ret.val.data[i]) = n
                /\ ret.val.data[i][j] = ret.val.data[j][i]
                /\ ret.val.data[i][i] = R(0)
                /\ i <= j => ret.val.data[i][j] = DistRef(p[i], p[j])
            /\ (\A i, j \in 1..n : DistRef(p[i], p[j]) = DistRef(p[j], p[i]))
                => \A i, j \in 1..n : ret.val.data[i][j] = DistRef(p[i], p[j])

\* C2 witness: the matrix of three points with three different distances
\* between them, one of which depends on the direction.
C2_Witness ==
    /\ Returned("dist_pairwise") /\ ConcreteMetric
    /\ Len(call.args[1].data) = 3
    /\ ret.kind = "value"
    /\ LET p == call.args[1].data
       IN  /\ Cardinality({DistRef(p[1], p[2]), DistRef(p[1], p[3]),
                           DistRef(p[2], p[3]), R(0)}) = 4
           /\ DistRef(p[2], p[1]) # DistRef(p[1], p[2])

\* The greatest of a non-empty set of rationals.
Greatest(S) == CHOOSE v \in S : \A w \in S : ~RLess(v, w)

\* C3: diameter runs its loop for i = 0..n-2 and returns the greatest
\* dist(p_i, p_j) over the pairs i < j; for n <= 1 it returns 0.0.
C3_DiameterIsMaxPairwiseDist ==
    Returned("diameter") =>
        LET p == call.args[1].data
            n == Len(p)
        IN  /\ n <= 1 => ret = Value(Arr(0, R(0))) /\ evals = <<>>
            /\ (n >= 2 /\ ConcreteMetric) =>
                /\ evals = [k \in 1..(n - 1) |-> k - 1]
                /\ ret = Value(Arr(0, Greatest(
                        {DistRef(p[q[1]], p[q[2]]) :
                            q \in {r \in (1..n) \X (1..n) : r[1] < r[2]}})))

\* C3 witness: three points with d(0,1) = 1, d(0,2) = 5, d(1,2) = 3, of
\* which diameter returns 5.
C3_Witness ==
    /\ Returned("diameter") /\ ConcreteMetric
    /\ Len(call.args[1].data) = 3
    /\ LET p == call.args[1].data
       IN  /\ DistRef(p[1], p[2]) = R(1)
           /\ DistRef(p[1], p[3]) = R(5)
           /\ DistRef(p[2], p[3]) = R(3)
    /\ ret = Value(Arr(0, R(5)))
    /\ evals = <<0, 1>>

\* C4: closest_neighbor_index returns the index k of a neighbor no farther
\* from the point than any other, and the lowest such index.
C4_ClosestNeighborIsFirstArgMin ==
    (Returned("closest_neighbor_index") /\ ConcreteMetric) =>
        LET x == call.args[1].data
            nb == call.args[2].data
            k == ret.val.data
        IN  /\ ret.kind = "value"
            /\ ret.val = IntArr(k)
            /\ k \in 0..(Len(nb) - 1)
            /\ \A j \in 1..Len(nb) :
                ~RLess(DistRef(x, nb[j]), DistRef(x, nb[k + 1]))
            /\ \A j \in 1..k :
                DistRef(x, nb[j]) # DistRef(x, nb[k + 1])

\* C4 witness: three neighbors, the last two equally near and nearer than
\* the first; the index returned is 1.
C4_Witness ==
    /\ Returned("closest_neighbor_index") /\ ConcreteMetric
    /\ Len(call.args[2].data) = 3
    /\ LET x == call.args[1].data
           nb == call.args[2].data
       IN  /\ DistRef(x, nb[2]) = DistRef(x, nb[3])
           /\ RLess(DistRef(x, nb[2]), DistRef(x, nb[1]))
    /\ ret = Value(IntArr(1))

\* C5 as stated: christoffels[i][k][l] is
\* 1/2 sum_m cometric[i][m] * (d_k metric[m][l] + d_l metric[m][k]
\*                             - d_m metric[k][l])
\* with cometric = inner_product_inverse_matrix(base_point) and
\* D[a][b][c] = d_c metric[a][b] = inner_product_derivative_matrix(base_point).
C5_Original ==
    (Returned("christoffels") /\ ret.kind = "value") =>
        LET x == call.args[1]
            d == metric.dim
            cometric == inner_product_inverse_matrix(metric, x).val.data
            D == inner_product_derivative_matrix(metric, x).val.data
        IN  \A i, k, l \in 1..d :
                ret.val.data[i][k][l] =
                    RMul(Rat(1, 2), RSum([m \in 1..d |->
                        RMul(cometric[i][m],
                             RSub(RAdd(D[m][l][k], D[m][k][l]), D[k][l][m]))]))

\* The operations that reach the abstract primitive.
DependentOps ==
    {"metric_matrix", "inner_product_inverse_matrix",
     "inner_product_derivative_matrix", "inner_product", "squared_norm",
     "norm", "christoffels", "grad", "cometric_matrix", "inner_coproduct",
     "hamiltonian", "Hamiltonian_equation"}

\* The primitive of the class of the metric object.
Primitive ==
    IF metric.cls = "RiemannianCometric" THEN "cometric_matrix"
    ELSE "metric_matrix"

\* C6: on a metric object whose class does not override the primitive
\* (metric_matrix on a RiemannianMetric, cometric_matrix on a
\* RiemannianCometric), the primitive and every operation that depends on
\* it end in the NotImplementedError raised by the primitive; none returns
\* a value or another exception.
C6_AbstractPrimitiveRaises ==
    (pc = "returned" /\ ~metric.concrete /\ call.op \in DependentOps) =>
        ret = Raise("NotImplementedError", Primitive)

\* C6 witness: hamiltonian on a cometric object without cometric_matrix
\* ends in the error of cometric_matrix.
C6_Witness ==
    /\ Returned("hamiltonian") /\ ~metric.concrete
    /\ metric.cls = "RiemannianCometric"
    /\ ret = Raise("NotImplementedError", "cometric_matrix")

\* The unit vector e_i of dimension d, and x + k * e_i.
Unit(d, i) == [j \in 1..d |-> IF j = i THEN R(1) ELSE R(0)]
Shifted(x, k, i) ==
    Arr(1, [j \in 1..Len(x.data) |->
        RAdd(x.data[j], RMul(k, Unit(Len(x.data), i)[j]))])

\* H = hamiltonian((position, momentum)) as a number.
H(position, momentum) ==
    hamiltonian(metric, Tuple(<<position, momentum>>)).val.data

\* The partial derivatives of H.  H is a quadratic form in momentum, so its
\* central difference quotient with step 1 is its derivative; the cometric
\* matrix is affine in position, so there the forward difference quotient
\* with step 1 is the derivative.
dH_dmomentum(position, momentum) ==
    Arr(1, [i \in 1..metric.dim |->
        RMul(Rat(1, 2), RSub(H(position, Shifted(momentum, R(1), i)),
                             H(position, Shifted(momentum, R(-1), i))))])
dH_dposition(position, momentum) ==
    Arr(1, [c \in 1..metric.dim |->
        RSub(H(Shifted(position, R(1), c), momentum), H(position, momentum))])

\* C7 as stated: Hamiltonian_equation(position, momentum) returns the pair
\* (dH/dmomentum, -dH/dposition) of H = hamiltonian((position, momentum)).
C7_Original ==
    (Returned("Hamiltonian_equation") /\ metric.concrete) =>
        LET position == call.args[1]
            momentum == call.args[2]
        IN  ret = Value(Tuple(<<dH_dmomentum(position, momentum),
                                negative(dH_dposition(position, momentum)).val>>))

\* The right-hand side of Hamilton's equations at the state s.
HamiltonField(s) ==
    Tuple(<<dH_dmomentum(s.tuple[1], s.tuple[2]),
            negative(dH_dposition(s.tuple[1], s.tuple[2])).val>>)

\* One step of the named scheme along Hamilton's equations.
StepAlong(step, s, dt) ==
    LET half == RMul(Rat(1, 2), dt)
        third == RMul(Rat(1, 3), dt)
        sixth == RMul(Rat(1, 6), dt)
        Moved(from, k, slope) == advance(from, k, slope).val
        Slope(k, slope) == With(Moved(s, k, slope), HamiltonField)
        Euler(k1) == Moved(s, dt, k1)
        From1(k1) ==
            LET From2(k2) ==
                LET From3(k3) ==
                    LET From4(k4) ==
                        Moved(Moved(Moved(Moved(s, sixth, k1), third, k2),
                                    third, k3), sixth, k4)
                    IN  With(Slope(dt, k3), From4)
                IN  With(Slope(half, k2), From3)
            IN  With(Slope(half, k1), From2)
    IN  IF step = "rk4" THEN With(HamiltonField(s), From1)
        ELSE With(HamiltonField(s), Euler)

\* The state after n steps from s.
RECURSIVE FinalState(_, _, _, _)
FinalState(step, s, dt, n) ==
    IF n = 0 THEN s
    ELSE LET Rest(s1) == FinalState(step, s1, dt, n - 1)
         IN  With(StepAlong(step, s, dt), Rest)

\* C8 as stated: exp runs exactly n_steps steps of the named scheme along
\* Hamilton's equations from the state (base_point, cotangent_vec) and
\* returns the position of the final state, whatever point_type is; with
\* n_steps = 0 that is base_point.
C8_Original ==
    (Returned("exp") /\ metric.concrete) =>
        LET cotangent_vec == call.args[1]
            base_point == call.args[2]
            n_steps == call.args[3]
            step == call.args[4]
        IN  /\ ret.kind = "value"
            /\ evals = [k \in 1..n_steps |-> k - 1]
            /\ n_steps = 0 => ret.val = base_point
            /\ ret.val = FinalState(step, Tuple(<<base_point, cotangent_vec>>),
                                    Rat(1, n_steps), n_steps).tuple[1]

\* loss(y_pred, y_true, metric) of single points, as a number.
LossAt(y_pred, y_true) == loss(y_pred, y_true, metric).val.data[1][1]

\* The derivative of loss with respect to y_pred.  With log(point = b,
\* base_point = a) = b - a and a constant metric matrix, loss is a quadratic
\* form in y_pred, so its central difference quotient with step 1 is its
\* derivative.
dLoss_dy_pred(y_pred, y_true) ==
    [i \in 1..metric.dim |->
        RMul(Rat(1, 2), RSub(LossAt(Shifted(y_pred, R(1), i), y_true),
                             LossAt(Shifted(y_pred, R(-1), i), y_true)))]

\* -2 * G * (y_true - y_pred).
MinusTwoG(G, y_pred, y_true) ==
    [i \in 1..metric.dim |->
        RMul(R(-2), RSum([j \in 1..metric.dim |->
            RMul(G[i][j], RSub(y_true.data[j], y_pred.data[j]))]))]

\* A constant symmetric positive-definite metric matrix with the log of
\* the flat connection.
ConstantFlatMetric ==
    /\ metric.concrete /\ metric.conn = "flat" /\ Constant(metric)
    /\ metric.cls = "RiemannianMetric"

\* C10 as stated: for a constant symmetric positive-definite metric matrix
\* G and log(point = b, base_point = a) = b - a, grad(y_pred, y_true,
\* metric) has the shape of y_pred and is the derivative of loss with
\* respect to y_pred, which is -2 * G * (y_true - y_pred).
C10_Original ==
    (Returned("grad") /\ ConstantFlatMetric
        /\ call.args[1].ndim = call.args[2].ndim) =>
        LET y_pred == call.args[1]
            y_true == call.args[2]
            Row(x, n) == Arr(1, to_ndarray(x, 2).data[n])
        IN  /\ ret.kind = "value"
            /\ ret.val.ndim = y_pred.ndim
            /\ Len(ret.val.data) = Len(y_pred.data)
            /\ \A n \in 1..Len(to_ndarray(y_pred, 2).data) :
                /\ Row(ret.val, n).data =
                       MinusTwoG(metric.P0, Row(y_pred, n), Row(y_true, n))
                /\ Row(ret.val, n).data =
                       dLoss_dy_pred(Row(y_pred, n), Row(y_true, n))

\* The squared norm of vector number i of a basis of shape [dim, dim].
BasisSquaredNorm(basis, base_point, i) ==
    squared_norm(metric, Arr(1, basis.data[i]), base_point).val.data[1][1]

\* Vector v multiplied by the number k.
Rescaled(k, v) == [j \in 1..Len(v) |-> RMul(k, v[j])]

\* C12: orthonormal_basis(basis, base_point) only rescales: with every
\* squared norm defined and strictly positive, it returns the vectors
\* basis[i] / sqrt(squared_norm(basis[i], base_point)), each of squared norm
\* 1, and a basis of vectors of squared norm 1 unchanged.
C12_Original ==
    (Returned("orthonormal_basis") /\ call.args[1].ndim = 2) =>
        LET basis == call.args[1]
            base_point == call.args[2]
            n == Len(basis.data)
        IN  (/\ squared_norm(metric, basis, base_point).kind = "value"
             /\ \A i \in 1..n :
                 RLess(R(0), BasisSquaredNorm(basis, base_point, i))) =>
            /\ ret.kind = "value"
            /\ \A i \in 1..n :
                /\ ret.val.data[i] =
                       Rescaled(RDiv(R(1), sqrt(BasisSquaredNorm(
                                    basis, base_point, i))), basis.data[i])
                /\ BasisSquaredNorm(ret.val, base_point, i) = R(1)
            /\ (\A i \in 1..n :
                    BasisSquaredNorm(basis, base_point, i) = R(1)) =>
                ret.val.data = basis.data

\* The array D of shape [dim, dim, dim] is symmetric in its first two axes.
SymmetricDerivative(D) ==
    \A a, b, c \in 1..Len(D) : D[a][b][c] = D[b][a][c]

\* C15 as stated: where the derivative of the metric matrix is symmetric,
\* D[a][b][c] = D[b][a][c], the result of christoffels(base_point) is
\* symmetric in its two lower indices:
\* christoffels[i][k][l] = christoffels[i][l][k].
C15_Original ==
    (Returned("christoffels") /\ ret.kind = "value") =>
        LET D == inner_product_derivative_matrix(metric, call.args[1]).val.data
        IN  SymmetricDerivative(D) =>
                \A i, k, l \in 1..metric.dim :
                    ret.val.data[i][k][l] = ret.val.data[i][l][k]

\* What the operation op returns or raises, called on the object self with
\* the arguments args.
Result(self, op, args) ==
    CASE op = "inner_product" ->
             inner_product(self, args[1], args[2], args[3])
      [] op = "squared_norm" -> squared_norm(self, args[1], args[2])
      [] op = "norm" -> norm(self, args[1], args[2])
      [] op = "squared_dist" -> squared_dist(self, args[1], args[2])
      [] op = "dist" -> dist(self, args[1], args[2])
      [] op = "dist_pairwise" -> dist_pairwise(self, args[1])
      [] op = "diameter" -> diameter(self, args[1])
      [] op = "closest_neighbor_index" ->
             closest_neighbor_index(self, args[1], args[2])
      [] op = "orthonormal_basis" -> orthonormal_basis(self, args[1], args[2])
      [] op = "metric_matrix" -> metric_matrix(self, args[1])
      [] op = "inner_product_inverse_matrix" ->
             inner_product_inverse_matrix(self, args[1])
      [] op = "inner_product_derivative_matrix" ->
             inner_product_derivative_matrix(self, args[1])
      [] op = "christoffels" -> christoffels(self, args[1])
      [] op = "loss" -> loss(args[1], args[2], self)
      [] op = "grad" -> grad(args[1], args[2], self)
      [] op = "cometric_matrix" -> cometric_matrix(self, args[1])
      [] op = "inner_coproduct" ->
             inner_coproduct(self, args[1], args[2], args[3])
      [] op = "hamiltonian" -> hamiltonian(self, args[1])
      [] op = "Hamiltonian_equation" ->
             Hamiltonian_equation(self, args[1], args[2])
      [] op = "exp" ->
             exp(self, args[1], args[2], args[3], args[4], args[5])

\* The signatures an object of dimension d can be constructed with.
Signatures(d) == {None, <<d, 0>>, <<d - 1, 1>>, <<0, d>>}

\* C14: a metric object is fixed at construction.  Every call of an
\* operation, and of loss and grad with the object as parameter, leaves its
\* dim, signature and default_point_type (and the rest of the object) as
\* they were, and no computation reads signature: the call returns or
\* raises what it does on the object constructed with any other signature.
C14_FixedAtConstruction ==
    [][/\ metric'.dim = metric.dim
       /\ metric'.signature = metric.signature
       /\ metric'.default_point_type = metric.default_point_type
       /\ metric' = metric
       /\ pc' = "returned" =>
            \A sig \in Signatures(metric.dim) :
                ret' = Result([metric EXCEPT !.signature = sig],
                              call'.op, call'.args)]_vars

\* An operation has returned a value on an object constructed with a
\* signature.
C14_Witness ==
    /\ Returned("dist")
    /\ metric.signature = <<2, 0>>
    /\ ret.kind = "value"
    /\ ret.val.data[1][1] # R(0)

(***************************************************************************)
(* The malformed input of test_not_belongs.                                *)
(***************************************************************************)
\* The point and the expected output test_not_belongs handed to
\* test_belongs.
HandedPoint == evals[1]
HandedExpected == evals[2]

AllOnes(x) == \A k \in DOMAIN x.data : x.data[k] = 1
AllFalse(x) == \A k \in DOMAIN x.data : x.data[k] = FALSE

\* C11 as stated: test_not_belongs(n_points, atol) builds n_points all-ones
\* arrays whose shape is the declared point shape followed by one extra
\* trailing axis (rank = declared rank + 1, declared axis sizes unchanged),
\* the expected vector has n_points entries, all false, for every
\* n_points >= 0 the input is a batch of n_points arrays, and belongs is
\* asserted false for each of them.
C11_Original ==
    Returned("test_not_belongs") =>
        LET n_points == call.args[1]
            shape == HandedPoint.shape
        IN  /\ Len(shape) = 1 + space.point_ndim + 1
            /\ shape[1] = n_points
            /\ SubSeq(shape, 2, 1 + space.point_ndim) = space.shape
            /\ AllOnes(HandedPoint)
            /\ HandedExpected.shape = <<n_points>>
            /\ AllFalse(HandedExpected)
            /\ ret = test_belongs(space, HandedPoint, HandedExpected,
                                  call.args[2])

\* C11: test_not_belongs(n_points, atol) builds all-ones arrays of the
\* declared point RANK whose FIRST axis is one longer than declared (the
\* other axes as declared): a batch of n_points of them when n_points >= 1,
\* and a single unbatched array when n_points = 0.  The expected vector has
\* exactly n_points entries, all false; the verdict is that of test_belongs
\* on this pair, and for n_points >= 1 on a correct space belongs is false
\* for each of the n_points arrays and the check passes.
C11_FirstAxisLonger ==
    Returned("test_not_belongs") =>
        LET n_points == call.args[1]
            shape == HandedPoint.shape
            batch == IF n_points = 0 THEN <<>> ELSE <<n_points>>
        IN  /\ shape = batch \o <<space.shape[1] + 1>> \o Tail(space.shape)
            /\ Len(shape) = Len(batch) + space.point_ndim
            /\ AllOnes(HandedPoint)
            /\ Len(HandedPoint.data) = Size(shape)
            /\ HandedExpected.shape = <<n_points>>
            /\ Len(HandedExpected.data) = n_points
            /\ AllFalse(HandedExpected)
            /\ ret = test_belongs(space, HandedPoint, HandedExpected,
                                  call.args[2])
            /\ n_points >= 1 =>
                /\ belongs(space, HandedPoint) = zeros_bool(n_points)
                /\ ret = Passed

\* test_not_belongs has run with a batch of two malformed matrices and with
\* no batch at all.
C11_Witness ==
    /\ Returned("test_not_belongs")
    /\ call.args[1] = 2
    /\ space.shape = <<2, 2>>
    /\ HandedPoint.shape = <<2, 3, 2>>
    /\ ret = Passed

(***************************************************************************)
(* The fixture and the order of the checks.                                *)
(***************************************************************************)
RandomChecks ==
    {"test_belongs_vec", "test_random_point_belongs",
     "test_random_point_shape", "test_projection_vec",
     "test_projection_belongs", "test_is_tangent_vec", "test_to_tangent_vec",
     "test_to_tangent_is_tangent", "test_random_point_is_tangent",
     "test_to_tangent_is_projection"}

\* The verdict of a check on a space, run with the random source in the
\* given state.
Verdict(self, op, args, seed) ==
    CASE op = "test_belongs" ->
            test_belongs(self, args[1], args[2], args[3])
      [] op = "test_belongs_vec" ->
            test_belongs_vec(self, args[1], args[2], seed).verdict
      [] op = "test_not_belongs" ->
            test_not_belongs(self, args[1], args[2])
      [] op = "test_random_point_belongs" ->
            test_random_point_belongs(self, args[1], args[2], seed).verdict
      [] op = "test_random_point_shape" ->
            test_random_point_shape(self, args[1], seed).verdict
      [] op = "test_is_tangent" ->
            test_is_tangent(self, args[1], args[2], args[3], args[4])
      [] op = "test_to_tangent" ->
            test_to_tangent(self, args[1], args[2], args[3], args[4])
      [] op = "test_projection" ->
            test_projection(self, args[1], args[2], args[3])
      [] op = "test_projection_vec" ->
            test_projection_vec(self, args[1], args[2], seed).verdict
      [] op = "test_projection_belongs" ->
            test_projection_belongs(self, args[1], args[2], seed).verdict
      [] op = "test_is_tangent_vec" ->
            test_is_tangent_vec(self, args[1], args[2], seed).verdict
      [] op = "test_to_tangent_vec" ->
            test_to_tangent_vec(self, args[1], args[2], seed).verdict
      [] op = "test_to_tangent_is_tangent" ->
            test_to_tangent_is_tangent(self, args[1], args[2], seed).verdict
      [] op = "test_random_point_is_tangent" ->
            test_random_point_is_tangent(self, args[1], args[2], seed).verdict
      [] op = "test_to_tangent_is_projection" ->
            test_to_tangent_is_projection(self, args[1], args[2],
                                          seed).verdict
      [] op = "test_basis_cardinality" -> test_basis_cardinality(self)
      [] op = "test_basis_belongs" -> test_basis_belongs(self, args[1])
      [] op = "test_basis" -> test_basis(self, args[1], args[2])

====
